---------------------------- MODULE Spec2Model ----------------------------
(***************************************************************************)
(* Model of jasper-chat-bot's ChatBox component:                           *)
(*   - parseMarkdownToHTML, the ordered pipeline of thirteen global regex  *)
(*     substitutions (src/app/components/ChatBox.vue:22-71);               *)
(*   - sendMessage and the chat session state (ChatBox.vue:74-111) with    *)
(*     the template's two ways of calling it (ChatBox.vue:146-160).        *)
(*                                                                         *)
(* A text is a sequence of tokens.  A character of the input is a string   *)
(* of length one; a fragment of markup written by a replacement is one     *)
(* token per tag ("<strong>", "</li>", ...).  No pattern of the pipeline   *)
(* can match inside such a fragment or at its first character (every       *)
(* fragment starts with '<' or '"', holds no line break, and no pattern    *)
(* names '<', '"', '/', '=' or a letter), so to every pattern a fragment   *)
(* is an ordinary non-special character, which is how it is treated here.  *)
(***************************************************************************)
EXTENDS Integers, Sequences, FiniteSets, TLC

VARIABLES
    input,        \* argument of parseMarkdownToHTML (message.parts[0].text)
    text,         \* the local `text` as the pipeline rewrites it
    pc,           \* the next statement of parseMarkdownToHTML
    mounted,      \* onMounted has run
    newMessage,   \* ref newMessage (the input box, v-model)
    messages,     \* ref messages
    isTyping,     \* ref isTyping
    errorMessage, \* ref errorMessage
    pending       \* $fetch calls awaiting their outcome

vars == <<input, text, pc, mounted, newMessage, messages, isTyping,
          errorMessage, pending>>

renderVars == <<input, text, pc>>
chatVars == <<mounted, newMessage, messages, isTyping, errorMessage, pending>>

----------------------------------------------------------------------------
(* Regular-expression primitives, as ECMAScript defines them.              *)

\* Line terminator: what '.' refuses and what ^ / $ look at under flag m.
LineTerminator == {"\n"}

\* \s
WhiteSpace == {" ", "\n"}

\* \d
Digit == {"0", "1", "2", "3", "4", "5", "6", "7", "8", "9"}

Min(S) == CHOOSE x \in S : \A y \in S : x <= y

\* s[a..b], empty when b < a
Sub(s, a, b) == IF b < a THEN <<>> ELSE SubSeq(s, a, b)

\* ^ under flag m: at the start of the text or just after a line terminator
AtLineStart(s, i) == i = 1 \/ (i > 1 /\ i <= Len(s) + 1 /\ s[i - 1] \in LineTerminator)

\* index just past the end of the line holding position i: where (.*)$ stops
LineEnd(s, i) ==
    Min({j \in i..(Len(s) + 1) : j = Len(s) + 1 \/ s[j] \in LineTerminator})

\* index of the first token at or after i that is not white space: greedy \s*
SkipSpace(s, i) ==
    Min({j \in i..(Len(s) + 1) : j = Len(s) + 1 \/ s[j] \notin WhiteSpace})

\* the literal lit stands at position i
LitAt(s, i, lit) ==
    /\ i >= 1
    /\ i + Len(lit) - 1 <= Len(s)
    /\ \A k \in 1..Len(lit) : s[i + k - 1] = lit[k]

\* no line terminator in s[a..b]: what '.' can run over
NoBreak(s, a, b) == \A k \in a..b : s[k] \notin LineTerminator

\* The backquote character (U+0060), which a TLA+ string cannot hold.
Backquote == "BQ"

\* A failed match attempt; a successful one is [next |-> index after the
\* match, out |-> the replacement].
NoMatch == [next |-> 0, out |-> <<>>]

\* delim (.*?) delim : the lazy capture ends at the first closing delimiter
\* that '.' can reach
LazyPair(s, i, delim, open, close) ==
    LET n == Len(delim)
        J == {j \in (i + n)..(Len(s) - n + 1) :
                 LitAt(s, j, delim) /\ NoBreak(s, i + n, j - 1)}
    IN  IF LitAt(s, i, delim) /\ J # {}
        THEN [next |-> Min(J) + n,
              out  |-> <<open>> \o Sub(s, i + n, Min(J) - 1) \o <<close>>]
        ELSE NoMatch

----------------------------------------------------------------------------
(* The thirteen patterns, each as one match attempt at position i.         *)

\* the bold pattern with a greedy capture, /\*\*(.*)\*\*/
BoldMatchGreedy(s, i) ==
    LET J == {j \in (i + 2)..(Len(s) - 1) :
                 LitAt(s, j, <<"*", "*">>) /\ NoBreak(s, i + 2, j - 1)}
        j == CHOOSE x \in J : \A y \in J : y <= x
    IN  IF LitAt(s, i, <<"*", "*">>) /\ J # {}
        THEN [next |-> j + 2,
              out  |-> <<"<strong>">> \o Sub(s, i + 2, j - 1) \o <<"</strong>">>]
        ELSE NoMatch

\* /\*\*(.*?)\*\*/  ->  <strong>$1</strong>
BoldMatch(s, i) == LazyPair(s, i, <<"*", "*">>, "<strong>", "</strong>")

\* /\*(.*?)\*/  ->  <em>$1</em>
ItalicMatch(s, i) == LazyPair(s, i, <<"*">>, "<em>", "</em>")

\* /~~(.*?)~~/  ->  <del>$1</del>
StrikeMatch(s, i) == LazyPair(s, i, <<"~", "~">>, "<del>", "</del>")

\* \[([^\]]{minText,})\]\(([^)]+)\) with the '[' at position i: the first
\* class runs to the first ']', the second to the first ')'.
BracketParen(s, i, minText) ==
    LET J == {j \in (i + 1)..Len(s) : s[j] = "]"}
        j == IF J = {} THEN 0 ELSE Min(J)
        K == {k \in (j + 2)..Len(s) : s[k] = ")"}
        k == IF K = {} THEN 0 ELSE Min(K)
    IN  IF /\ LitAt(s, i, <<"[">>)
           /\ j >= i + 1 + minText
           /\ LitAt(s, j + 1, <<"(">>)
           /\ k >= j + 3
        THEN [ok |-> TRUE, first |-> Sub(s, i + 1, j - 1),
              second |-> Sub(s, j + 2, k - 1), next |-> k + 1]
        ELSE [ok |-> FALSE, first |-> <<>>, second |-> <<>>, next |-> 0]

\* the link replacement with the url written twice, <a href="$2">$2</a>
LinkMatchUrlTwice(s, i) ==
    LET m == BracketParen(s, i, 1)
    IN  IF m.ok
        THEN [next |-> m.next,
              out  |-> <<"<a href=\"">> \o m.second \o <<"\">">> \o m.second
                       \o <<"</a>">>]
        ELSE NoMatch

\* /\[([^\]]+)\]\(([^)]+)\)/  ->  <a href="$2">$1</a>
LinkMatch(s, i) ==
    LET m == BracketParen(s, i, 1)
    IN  IF m.ok
        THEN [next |-> m.next,
              out  |-> <<"<a href=\"">> \o m.second \o <<"\">">> \o m.first
                       \o <<"</a>">>]
        ELSE NoMatch

\* number of '#' in a row from position i
RECURSIVE HashRun(_, _)
HashRun(s, i) == IF i <= Len(s) /\ s[i] = "#" THEN 1 + HashRun(s, i + 1) ELSE 0

HOpen == <<"<h1>", "<h2>", "<h3>", "<h4>", "<h5>", "<h6>">>
HClose == <<"</h1>", "</h2>", "</h3>", "</h4>", "</h5>", "</h6>">>

\* greatest repetition count of #{1,6}
MaxHeadingLevel == 6

\* /^(#{1,6})\s*(.*)$/m  ->  <hN>$2</hN>, N = length of $1
HeadingMatch(s, i) ==
    LET run   == HashRun(s, i)
        level == IF run > MaxHeadingLevel THEN MaxHeadingLevel ELSE run
        p     == SkipSpace(s, i + level)
        e     == LineEnd(s, p)
    IN  IF AtLineStart(s, i) /\ run >= 1
        THEN [next |-> e,
              out  |-> <<HOpen[level]>> \o Sub(s, p, e - 1) \o <<HClose[level]>>]
        ELSE NoMatch

\* /`([^`]+)`/  ->  <code>$1</code>
InlineCodeMatch(s, i) ==
    LET J == {j \in (i + 1)..Len(s) : s[j] = Backquote}
    IN  IF LitAt(s, i, <<Backquote>>) /\ J # {} /\ Min(J) >= i + 2
        THEN [next |-> Min(J) + 1,
              out  |-> <<"<code>">> \o Sub(s, i + 1, Min(J) - 1) \o <<"</code>">>]
        ELSE NoMatch

Fence == <<Backquote, Backquote, Backquote>>

\* /```([\s\S]+?)```/  ->  <pre><code>$1</code></pre>
CodeBlockMatch(s, i) ==
    LET J == {j \in (i + 4)..(Len(s) - 2) : LitAt(s, j, Fence)}
    IN  IF LitAt(s, i, Fence) /\ J # {}
        THEN [next |-> Min(J) + 3,
              out  |-> <<"<pre>", "<code>">> \o Sub(s, i + 3, Min(J) - 1)
                       \o <<"</code>", "</pre>">>]
        ELSE NoMatch

\* /^>\s*(.*)$/m  ->  <blockquote>$1</blockquote>
BlockquoteMatch(s, i) ==
    LET p == SkipSpace(s, i + 1)
        e == LineEnd(s, p)
    IN  IF AtLineStart(s, i) /\ LitAt(s, i, <<">">>)
        THEN [next |-> e,
              out  |-> <<"<blockquote>">> \o Sub(s, p, e - 1) \o <<"</blockquote>">>]
        ELSE NoMatch

\* /^\*\s(.*)$/m  ->  <ul><li>$1</li></ul>
UnorderedMatch(s, i) ==
    LET e == LineEnd(s, i + 2)
    IN  IF /\ AtLineStart(s, i)
           /\ LitAt(s, i, <<"*">>)
           /\ i + 1 <= Len(s)
           /\ s[i + 1] \in WhiteSpace
        THEN [next |-> e,
              out  |-> <<"<ul>", "<li>">> \o Sub(s, i + 2, e - 1)
                       \o <<"</li>", "</ul>">>]
        ELSE NoMatch

\* number of digits in a row from position i
RECURSIVE DigitRun(_, _)
DigitRun(s, i) ==
    IF i <= Len(s) /\ s[i] \in Digit THEN 1 + DigitRun(s, i + 1) ELSE 0

\* the ordered-list pattern without its ^ anchor, /\d+\.\s(.*)$/m
OrderedMatchUnanchored(s, i) ==
    LET d == DigitRun(s, i)
        e == LineEnd(s, i + d + 2)
    IN  IF /\ d >= 1
           /\ LitAt(s, i + d, <<".">>)
           /\ i + d + 1 <= Len(s)
           /\ s[i + d + 1] \in WhiteSpace
        THEN [next |-> e,
              out  |-> <<"<ol>", "<li>">> \o Sub(s, i + d + 2, e - 1)
                       \o <<"</li>", "</ol>">>]
        ELSE NoMatch

\* /^\d+\.\s(.*)$/m  ->  <ol><li>$1</li></ol>
OrderedMatch(s, i) ==
    LET d == DigitRun(s, i)
        e == LineEnd(s, i + d + 2)
    IN  IF /\ AtLineStart(s, i)
           /\ d >= 1
           /\ LitAt(s, i + d, <<".">>)
           /\ i + d + 1 <= Len(s)
           /\ s[i + d + 1] \in WhiteSpace
        THEN [next |-> e,
              out  |-> <<"<ol>", "<li>">> \o Sub(s, i + d + 2, e - 1)
                       \o <<"</li>", "</ol>">>]
        ELSE NoMatch

\* /!\[([^\]]*)\]\(([^)]+)\)/  ->  <img src="$2" alt="$1"/>
ImageMatch(s, i) ==
    LET m == BracketParen(s, i + 1, 0)
    IN  IF LitAt(s, i, <<"!">>) /\ m.ok
        THEN [next |-> m.next,
              out  |-> <<"<img src=\"">> \o m.second \o <<"\" alt=\"">> \o m.first
                       \o <<"\"/>">>]
        ELSE NoMatch

\* String.prototype.trim
RECURSIVE Trim(_)
Trim(c) ==
    IF c = <<>> THEN <<>>
    ELSE IF Head(c) \in WhiteSpace THEN Trim(Tail(c))
    ELSE IF c[Len(c)] \in WhiteSpace THEN Trim(Sub(c, 1, Len(c) - 1))
    ELSE c

\* content.split('|').map(cell => open + cell.trim() + close).join('')
RECURSIVE Cells(_, _, _)
Cells(content, open, close) ==
    LET B == {j \in 1..Len(content) : content[j] = "|"}
    IN  IF B = {}
        THEN <<open>> \o Trim(content) \o <<close>>
        ELSE <<open>> \o Trim(Sub(content, 1, Min(B) - 1)) \o <<close>>
             \o Cells(Sub(content, Min(B) + 1, Len(content)), open, close)

\* /^\|(.+)\|$/m with the '|' at position i: the whole line, whose last
\* character is '|' and which holds at least one character in between
RowLine(s, i) ==
    LET e == LineEnd(s, i)
    IN  IF /\ AtLineStart(s, i)
           /\ LitAt(s, i, <<"|">>)
           /\ e - 1 >= i + 2
           /\ s[e - 1] = "|"
        THEN [ok |-> TRUE, content |-> Sub(s, i + 1, e - 2), next |-> e]
        ELSE [ok |-> FALSE, content |-> <<>>, next |-> 0]

\* first table pass  ->  <thead><tr><th>cell</th>...</tr></thead><tbody>
TableHeadMatch(s, i) ==
    LET m == RowLine(s, i)
    IN  IF m.ok
        THEN [next |-> m.next,
              out  |-> <<"<thead>", "<tr>">> \o Cells(m.content, "<th>", "</th>")
                       \o <<"</tr>", "</thead>", "<tbody>">>]
        ELSE NoMatch

\* second table pass  ->  <tr><td>cell</td>...</tr></tbody></table>
TableRowMatch(s, i) ==
    LET m == RowLine(s, i)
    IN  IF m.ok
        THEN [next |-> m.next,
              out  |-> <<"<tr>">> \o Cells(m.content, "<td>", "</td>")
                       \o <<"</tr>", "</tbody>", "</table>">>]
        ELSE NoMatch

\* The statements of parseMarkdownToHTML in source order.
Rules == <<"bold", "italic", "strike", "link", "heading", "code", "codeblock",
           "blockquote", "ul", "ol", "image", "thead", "trow">>

Match(rule, s, i) ==
    CASE rule = "bold"       -> BoldMatch(s, i)
      [] rule = "italic"     -> ItalicMatch(s, i)
      [] rule = "strike"     -> StrikeMatch(s, i)
      [] rule = "link"       -> LinkMatch(s, i)
      [] rule = "heading"    -> HeadingMatch(s, i)
      [] rule = "code"       -> InlineCodeMatch(s, i)
      [] rule = "codeblock"  -> CodeBlockMatch(s, i)
      [] rule = "blockquote" -> BlockquoteMatch(s, i)
      [] rule = "ul"         -> UnorderedMatch(s, i)
      [] rule = "ol"         -> OrderedMatch(s, i)
      [] rule = "image"      -> ImageMatch(s, i)
      [] rule = "thead"      -> TableHeadMatch(s, i)
      [] rule = "trow"       -> TableRowMatch(s, i)

\* String.prototype.replace with a /g pattern: matches are found left to
\* right from position i, each search resuming where the last match ended;
\* text between matches is copied.
RECURSIVE ReplaceFrom(_, _, _)
ReplaceFrom(rule, s, i) ==
    IF i > Len(s) THEN <<>>
    ELSE LET m == Match(rule, s, i)
         IN  IF m.next > 0
             THEN m.out \o ReplaceFrom(rule, s, m.next)
             ELSE <<s[i]>> \o ReplaceFrom(rule, s, i + 1)

Replace(rule, s) == ReplaceFrom(rule, s, 1)

\* text after the first n statements
RECURSIVE Pipeline(_, _)
Pipeline(s, n) == IF n = 0 THEN s ELSE Replace(Rules[n], Pipeline(s, n - 1))

parseMarkdownToHTML(s) == Pipeline(s, Len(Rules))

----------------------------------------------------------------------------
(* Arguments of parseMarkdownToHTML.                                       *)

\* bounds of the argument families
MaxLen == 4
MaxStarLen == 7
MaxPlainLen == 4
MaxMixedLen == 3
MaxPartLen == 2

\* every text over alphabet A of length at most n
Texts(A, n) == UNION {[1..k -> A] : k \in 0..n}

\* every text over alphabet A of length 1..n
Words(A, n) == Texts(A, n) \ {<<>>}

\* emphasis, list, heading and quote markers in free combination
MarkInputs == Texts({"*", "#", ">", " ", "a", "\n"}, MaxLen)

\* one or two list lines "* X"
ListInputs ==
    LET Item == {<<"*", " ">> \o X : X \in Texts({"a", "*"}, MaxPartLen + 1)}
    IN  Item \cup {i1 \o <<"\n">> \o i2 : i1 \in Item, i2 \in Item}

\* runs of asterisks around a letter
StarInputs == Texts({"*", "a"}, MaxStarLen)

\* "**X** and *Y*"
BoldItalicInputs ==
    {<<"*", "*">> \o X \o <<"*", "*", " ", "a", "n", "d", " ", "*">> \o Y
     \o <<"*">> :
        X \in Words({"a", "b"}, MaxPartLen), Y \in Words({"a", "b"}, MaxPartLen)}

\* letters, digits, periods, spaces and line breaks
PlainInputs == Texts({"a", "1", ".", " ", "\n"}, MaxPlainLen)

\* every character the patterns name, in short free combination
AllChars == {"*", "~", "[", "]", "(", ")", "#", Backquote, ">", "|", "!",
             "<", "&", "a", "1", ".", " ", "\n"}
MixedInputs == Texts(AllChars, MaxMixedLen)

\* fenced blocks ```X``` and free runs of backquotes
FenceInputs ==
    {Fence \o X \o Fence : X \in Words({"b", "\n"}, MaxPartLen)}
    \cup Texts({Backquote, "b"}, MaxLen + 1)

\* [text](url) and ![alt](url)
BracketInputs ==
    {bang \o <<"[">> \o T \o <<"]", "(">> \o U \o <<")">> :
        bang \in {<<>>, <<"!">>},
        T \in Texts({"a", "<", ">"}, MaxPartLen),
        U \in Words({"u", "<", ">"}, MaxPartLen)}

\* one or two lines |cells|
RowInputs ==
    LET Row == {<<"|">> \o c \o <<"|">> :
                   c \in Words({"a", "<", " ", "|"}, MaxPartLen)}
    IN  Row \cup {r1 \o <<"\n">> \o r2 : r1 \in Row, r2 \in Row}

Inputs == MarkInputs \cup ListInputs \cup StarInputs \cup BoldItalicInputs \cup PlainInputs
          \cup MixedInputs \cup FenceInputs \cup BracketInputs \cup RowInputs

----------------------------------------------------------------------------
(* parseMarkdownToHTML as a state machine: one action per statement.       *)

\* the chat session before the component is mounted
ChatIdle ==
    /\ mounted = FALSE
    /\ newMessage = <<>>
    /\ messages = <<>>
    /\ isTyping = FALSE
    /\ errorMessage = "none"
    /\ pending = {}

InitRender ==
    /\ input \in Inputs
    /\ text = input
    /\ pc = "bold"

Bold ==
    /\ pc = "bold"
    /\ text' = Replace("bold", text)
    /\ pc' = "italic"
    /\ UNCHANGED <<input, chatVars>>

Italic ==
    /\ pc = "italic"
    /\ text' = Replace("italic", text)
    /\ pc' = "strike"
    /\ UNCHANGED <<input, chatVars>>

Strike ==
    /\ pc = "strike"
    /\ text' = Replace("strike", text)
    /\ pc' = "link"
    /\ UNCHANGED <<input, chatVars>>

Link ==
    /\ pc = "link"
    /\ text' = Replace("link", text)
    /\ pc' = "heading"
    /\ UNCHANGED <<input, chatVars>>

Heading ==
    /\ pc = "heading"
    /\ text' = Replace("heading", text)
    /\ pc' = "code"
    /\ UNCHANGED <<input, chatVars>>

InlineCode ==
    /\ pc = "code"
    /\ text' = Replace("code", text)
    /\ pc' = "codeblock"
    /\ UNCHANGED <<input, chatVars>>

CodeBlock ==
    /\ pc = "codeblock"
    /\ text' = Replace("codeblock", text)
    /\ pc' = "blockquote"
    /\ UNCHANGED <<input, chatVars>>

Blockquote ==
    /\ pc = "blockquote"
    /\ text' = Replace("blockquote", text)
    /\ pc' = "ul"
    /\ UNCHANGED <<input, chatVars>>

Unordered ==
    /\ pc = "ul"
    /\ text' = Replace("ul", text)
    /\ pc' = "ol"
    /\ UNCHANGED <<input, chatVars>>

Ordered ==
    /\ pc = "ol"
    /\ text' = Replace("ol", text)
    /\ pc' = "image"
    /\ UNCHANGED <<input, chatVars>>

Image ==
    /\ pc = "image"
    /\ text' = Replace("image", text)
    /\ pc' = "thead"
    /\ UNCHANGED <<input, chatVars>>

TableHead ==
    /\ pc = "thead"
    /\ text' = Replace("thead", text)
    /\ pc' = "trow"
    /\ UNCHANGED <<input, chatVars>>

TableRow ==
    /\ pc = "trow"
    /\ text' = Replace("trow", text)
    /\ pc' = "done"
    /\ UNCHANGED <<input, chatVars>>

Init == InitRender /\ ChatIdle

Next ==
    \/ Bold \/ Italic \/ Strike \/ Link \/ Heading \/ InlineCode \/ CodeBlock
    \/ Blockquote \/ Unordered \/ Ordered \/ Image \/ TableHead \/ TableRow

Spec == Init /\ [][Next]_vars

----------------------------------------------------------------------------
(* Vocabulary of the properties.                                           *)

Chars(s) == {s[i] : i \in 1..Len(s)}

Count(s, c) == Cardinality({i \in 1..Len(s) : s[i] = c})

Last(s, n) == Sub(s, Len(s) - n + 1, Len(s))

\* the lines of s, split at line breaks
RECURSIVE SplitLines(_)
SplitLines(s) ==
    LET B == {j \in 1..Len(s) : s[j] = "\n"}
    IN  IF B = {} THEN <<s>>
        ELSE <<Sub(s, 1, Min(B) - 1)>> \o SplitLines(Sub(s, Min(B) + 1, Len(s)))

\* lines joined by line breaks
RECURSIVE JoinLines(_)
JoinLines(ls) ==
    IF Len(ls) = 1 THEN ls[1] ELSE ls[1] \o <<"\n">> \o JoinLines(Tail(ls))

Done == pc = "done"

----------------------------------------------------------------------------
(* C1: a fenced block ```X```, X non-empty and without backquote, is       *)
(* rendered as <pre><code>X</code></pre>.                                  *)

IsFenced(s) ==
    /\ Len(s) >= 7
    /\ LitAt(s, 1, Fence)
    /\ LitAt(s, Len(s) - 2, Fence)
    /\ Backquote \notin Chars(Sub(s, 4, Len(s) - 3))

\* C1: for every fenced code block ```X``` (X non-empty, no backquote, any
\* number of lines) the result is <pre><code>X</code></pre>; the inline-code
\* rule does not consume the fence.
C1_FencedBlockRendered ==
    (Done /\ IsFenced(input)) =>
        text = <<"<pre>", "<code>">> \o Sub(input, 4, Len(input) - 3)
               \o <<"</code>", "</pre>">>

----------------------------------------------------------------------------
(* C2: a well-formed image ![alt](url) is rendered as an <img>.            *)

\* the ways to read s as ![alt](url), alt non-empty without ']', url
\* non-empty without ')'
ImageReadings(s) ==
    {j \in 4..(Len(s) - 3) :
        /\ LitAt(s, 1, <<"!", "[">>)
        /\ LitAt(s, j, <<"]", "(">>)
        /\ s[Len(s)] = ")"
        /\ "]" \notin Chars(Sub(s, 3, j - 1))
        /\ ")" \notin Chars(Sub(s, j + 2, Len(s) - 1))}

\* C2: for every well-formed image ![alt](url) the result is
\* <img src="url" alt="alt"/>: the link rule leaves the image alone.
C2_ImageRendered ==
    Done => \A j \in ImageReadings(input) :
        text = <<"<img src=\"">> \o Sub(input, j + 2, Len(input) - 1)
               \o <<"\" alt=\"">> \o Sub(input, 3, j - 1) \o <<"\"/>">>

----------------------------------------------------------------------------
(* C3: every line "* content" becomes its own <ul><li>content</li></ul>.   *)

IsItemLine(l) == LitAt(l, 1, <<"*", " ">>)

\* the rules that act inside a line: bold, italic, strike, link, code, image
InlineRules == <<"bold", "italic", "strike", "link", "code", "image">>

RECURSIVE Inline(_, _)
Inline(s, n) == IF n = 0 THEN s ELSE Replace(InlineRules[n], Inline(s, n - 1))

ItemRendered(l) ==
    <<"<ul>", "<li>">> \o Inline(Sub(l, 3, Len(l)), Len(InlineRules))
    \o <<"</li>", "</ul>">>

\* C3: when every line of the input starts with "* ", each line is rendered
\* as its own <ul><li>content</li></ul>, content being the rest of the line
\* as the inline rules transform it, whatever the content.
C3_EachItemLineWrapped ==
    LET ls == SplitLines(input)
    IN  (Done /\ \A k \in 1..Len(ls) : IsItemLine(ls[k])) =>
            text = JoinLines([k \in 1..Len(ls) |-> ItemRendered(ls[k])])

----------------------------------------------------------------------------
(* C4: bold before italic.                                                 *)

\* the contents of the <strong>...</strong> spans of s
StrongSpans(s) ==
    {Sub(s, i + 1, j - 1) : <<i, j>> \in
        {p \in (1..Len(s)) \X (1..Len(s)) :
            /\ p[1] < p[2]
            /\ s[p[1]] = "<strong>"
            /\ s[p[2]] = "</strong>"
            /\ "</strong>" \notin Chars(Sub(s, p[1] + 1, p[2] - 1))}}

HasPair(c) == \E k \in 1..(Len(c) - 1) : c[k] = "*" /\ c[k + 1] = "*"

EndsWithStar(c) == c # <<>> /\ c[Len(c)] = "*"

\* "**X** and *Y*" for plain non-empty X and Y: the positions of the second
\* "**" that read the input this way
BoldItalicReadings(s) ==
    {j \in 4..(Len(s) - 9) :
        /\ LitAt(s, 1, <<"*", "*">>)
        /\ LitAt(s, j, <<"*", "*", " ", "a", "n", "d", " ", "*">>)
        /\ s[Len(s)] = "*"
        /\ Chars(Sub(s, 3, j - 1)) \subseteq {"a", "b"}
        /\ Chars(Sub(s, j + 8, Len(s) - 1)) \subseteq {"a", "b"}}

BoldItalicExample ==
    Done => \A j \in BoldItalicReadings(input) :
        text = <<"<strong>">> \o Sub(input, 3, j - 1)
               \o <<"</strong>", " ", "a", "n", "d", " ", "<em>">>
               \o Sub(input, j + 8, Len(input) - 1) \o <<"</em>">>

\* C4 as stated: when the italic rule runs no <strong> span holds a bare
\* '*', after it no <em> opens inside a <strong> span and closes outside
\* it, and render("**X** and *Y*") is <strong>X</strong> and <em>Y</em>.
C4_NoStarInsideStrong ==
    /\ pc = "italic" => \A c \in StrongSpans(text) : "*" \notin Chars(c)
    /\ pc = "strike" =>
          \A c \in StrongSpans(text) : Count(c, "<em>") = Count(c, "</em>")
    /\ BoldItalicExample

\* C4 amended: when the italic rule runs the text inside each <strong> span
\* holds no "**" and does not end in '*' (single asterisks may remain);
\* and render("**X** and *Y*") is <strong>X</strong> and <em>Y</em> for
\* plain X and Y.
C4_NoPairInsideStrong ==
    /\ pc = "italic" =>
          \A c \in StrongSpans(text) : ~HasPair(c) /\ ~EndsWithStar(c)
    /\ BoldItalicExample

\* the bold rule has acted and left a bare '*' inside a <strong> span
C4_Witness ==
    /\ pc = "italic"
    /\ \E c \in StrongSpans(text) : "*" \in Chars(c)

----------------------------------------------------------------------------
(* C5: the two table passes.                                               *)

IsRowLine(l) == Len(l) >= 3 /\ l[1] = "|" /\ l[Len(l)] = "|"

\* C5: for an input of one or more pipe-delimited row lines both passes
\* take effect: the second pass rewrites a row line as <tr><td>..., so the
\* output holds <td> cells and ends in </tr></tbody></table>.
C5_SecondPassTakesEffect ==
    LET ls == SplitLines(input)
    IN  (Done /\ \A k \in 1..Len(ls) : IsRowLine(ls[k])) =>
            /\ "<td>" \in Chars(text)
            /\ Last(text, 3) = <<"</tr>", "</tbody>", "</table>">>

----------------------------------------------------------------------------
(* C6: headings are matched per line.                                      *)

\* the characters only the heading rule acts on
HeadingChars == {"#", "a", " ", "\n"}

HeadingLineRendered(l) ==
    LET k == HashRun(l, 1)
    IN  IF k \in 1..MaxHeadingLevel
        THEN <<HOpen[k]>> \o Sub(l, SkipSpace(l, k + 1), Len(l)) \o <<HClose[k]>>
        ELSE l

\* C6: every line that begins with k '#' (1 <= k <= 6), optional white
\* space and content becomes <hk>content</hk> with the content of that same
\* line, and no other line is absorbed or altered, empty content included.
C6_HeadingPerLine ==
    LET ls == SplitLines(input)
    IN  (Done /\ Chars(input) \subseteq HeadingChars
              /\ \A k \in 1..Len(ls) : HashRun(ls[k], 1) <= MaxHeadingLevel) =>
            text = JoinLines([k \in 1..Len(ls) |-> HeadingLineRendered(ls[k])])

----------------------------------------------------------------------------
(* C7: identity on plain text.                                             *)

\* letters, digits, spaces, periods and line breaks
PlainChars == {"a", "b", "n", "d", "u", "1", ".", " ", "\n"}

IsPlain(s) == Chars(s) \subseteq PlainChars

\* some line starts with digits, a period and a white-space character
HasOrderedMarker(s) ==
    \E i \in 1..Len(s), j \in 1..Len(s) :
        /\ AtLineStart(s, i)
        /\ i < j
        /\ \A k \in i..(j - 1) : s[k] \in Digit
        /\ s[j] = "."
        /\ j + 1 <= Len(s)
        /\ s[j + 1] \in WhiteSpace

\* C7 as stated: render(text) = text for every text of letters, digits,
\* spaces, periods and line breaks.
C7_PlainIdentity == (Done /\ IsPlain(input)) => text = input

\* C7 amended: render(text) = text for every such text in which no line
\* starts with digits, a period and a white-space character.
C7_PlainIdentityExceptOrdered ==
    (Done /\ IsPlain(input) /\ ~HasOrderedMarker(input)) => text = input

\* a plain text with digits and a period away from a line start went
\* through the whole pipeline
C7_Witness ==
    /\ Done
    /\ IsPlain(input)
    /\ ~HasOrderedMarker(input)
    /\ \E i \in 2..(Len(input) - 2) :
          LitAt(input, i, <<"1", ".", " ">>) /\ input[i - 1] = "a"
    /\ text = input

----------------------------------------------------------------------------
(* C8: '<', '>' and '&' of the input are not escaped or removed.           *)

MetaChars == {"<", ">", "&"}

\* the '<', '>', '&' of s in order, those at the positions D left out
RECURSIVE MetaFrom(_, _, _)
MetaFrom(s, D, i) ==
    IF i > Len(s) THEN <<>>
    ELSE IF s[i] \in MetaChars /\ i \notin D
         THEN <<s[i]>> \o MetaFrom(s, D, i + 1)
         ELSE MetaFrom(s, D, i + 1)

Meta(s) == MetaFrom(s, {}, 1)

\* positions of the '>' that start a line
QuoteMarks(s) == {i \in 1..Len(s) : AtLineStart(s, i) /\ s[i] = ">"}

\* C8 as stated: every '<', '>' and '&' of the input is in the output,
\* untouched and in the same relative order, wherever it stands in a line.
C8_MetaUntouched == Done => Meta(text) = Meta(input)

\* C8 amended: every '<' and '&' of the input and every '>' that does not
\* start a line is in the output untouched; only a '>' that starts a line
\* can be dropped (by the blockquote rule); the relative order is kept
\* unless the input holds a '[' (the link and image rules put the url in
\* front of the text).
C8_MetaKeptExceptQuoteMarks ==
    Done =>
        /\ Count(text, "<") = Count(input, "<")
        /\ Count(text, "&") = Count(input, "&")
        /\ Count(text, ">") <= Count(input, ">")
        /\ Count(text, ">") >= Count(input, ">") - Cardinality(QuoteMarks(input))
        /\ "[" \notin Chars(input) =>
              \E D \in SUBSET QuoteMarks(input) : Meta(text) = MetaFrom(input, D, 1)

\* a rule rewrote an input that holds '<' and a '>' inside a line, and both
\* are still there
C8_Witness ==
    /\ Done
    /\ text # input
    /\ "<" \in Chars(input)
    /\ \E i \in 1..Len(input) : input[i] = ">" /\ ~AtLineStart(input, i)
    /\ Meta(text) = Meta(input)

----------------------------------------------------------------------------
(* The chat session: sendMessage, its two callers and the outcomes of the  *)
(* request it awaits.                                                      *)

\* bounds of the session
MaxMessages == 11
MaxPending == 2

\* what the user can have in the input box
InputTexts == {<<>>, <<" ">>, <<" ", "a", " ">>}

\* what the server can reply
Replies == {<<"r">>}

Message(role, t) == [role |-> role, parts |-> <<[text |-> t]>>]

Greeting == Message("model", <<"Hello! My name is Jasper Bot, How can I help you today?">>)

\* Array.prototype.slice(start, end) with relative (negative) indices
Slice(arr, start, end) ==
    LET n     == Len(arr)
        Rel(k) == IF k < 0 THEN (IF n + k < 0 THEN 0 ELSE n + k)
                           ELSE (IF k > n THEN n ELSE k)
    IN  Sub(arr, Rel(start) + 1, Rel(end))

\* the window without its end index, messages.value.slice(-10)
HistoryWindowWithSelf(ms) == Slice(ms, 0 - 10, Len(ms))

\* messages.value.slice(-10, -1)
HistoryWindow(ms) == Slice(ms, 0 - 10, 0 - 1)

\* the render variables while no call of parseMarkdownToHTML is modelled
RenderIdle ==
    /\ input = <<>>
    /\ text = <<>>
    /\ pc = "idle"

InitChat == ChatIdle /\ RenderIdle

\* onMounted
OnMounted ==
    /\ ~mounted
    /\ mounted' = TRUE
    /\ messages' = Append(messages, Greeting)
    /\ UNCHANGED <<newMessage, isTyping, errorMessage, pending>>
    /\ UNCHANGED renderVars

\* v-model="newMessage": the user edits the input box
TypeInput(v) ==
    /\ mounted
    /\ newMessage' = v
    /\ UNCHANGED <<mounted, messages, isTyping, errorMessage, pending>>
    /\ UNCHANGED renderVars

\* sendMessage up to its await: the request is made in the same turn, so
\* its body is built from messages as the push left it
BeginSend ==
    LET userMessage == Trim(newMessage)
        pushed      == Append(messages, Message("user", userMessage))
    IN  IF userMessage = <<>>
        THEN UNCHANGED chatVars
        ELSE /\ Len(messages) < MaxMessages
             /\ Cardinality(pending) < MaxPending
             /\ messages' = pushed
             /\ newMessage' = <<>>
             /\ isTyping' = TRUE
             /\ errorMessage' = "none"
             /\ pending' = pending \cup
                    {[at      |-> Len(pushed),
                      message |-> userMessage,
                      history |-> HistoryWindow(pushed)]}
             /\ UNCHANGED mounted

\* @click="sendMessage" on the button, :disabled="!newMessage.trim() || isTyping"
ClickSend ==
    /\ mounted
    /\ ~(Trim(newMessage) = <<>> \/ isTyping)
    /\ BeginSend
    /\ UNCHANGED renderVars

\* @keydown.enter="sendMessage" on the input: no condition on isTyping
KeydownEnter ==
    /\ mounted
    /\ BeginSend
    /\ UNCHANGED renderVars

\* the await resolves: try body continues, then finally
ReplyArrives(reply) ==
    \E r \in pending :
        /\ Len(messages) < MaxMessages
        /\ messages' = Append(messages, Message("model", reply))
        /\ isTyping' = FALSE
        /\ pending' = pending \ {r}
        /\ UNCHANGED <<mounted, newMessage, errorMessage>>
        /\ UNCHANGED renderVars

\* the await rejects: catch, then finally; withData is error.data?.error
RequestFails(withData) ==
    \E r \in pending :
        /\ errorMessage' = IF withData THEN "failed with details" ELSE "failed"
        /\ isTyping' = FALSE
        /\ pending' = pending \ {r}
        /\ UNCHANGED <<mounted, newMessage, messages>>
        /\ UNCHANGED renderVars

NextChat ==
    \/ OnMounted
    \/ \E v \in InputTexts : TypeInput(v)
    \/ ClickSend
    \/ KeydownEnter
    \/ \E reply \in Replies : ReplyArrives(reply)
    \/ \E withData \in BOOLEAN : RequestFails(withData)

SpecChat == InitChat /\ [][NextChat]_vars

----------------------------------------------------------------------------
(* C9: the history a request carries.                                      *)

Max(a, b) == IF a > b THEN a ELSE b

\* C9: every request carries as history exactly the messages that stand
\* immediately before its own user message in the list, in order, at most
\* nine of them, and never the message being sent.
C9_HistoryIsPrecedingMessages ==
    \A r \in pending :
        /\ r.at \in 1..Len(messages)
        /\ messages[r.at] = Message("user", r.message)
        /\ r.history = Sub(messages, Max(1, r.at - 9), r.at - 1)
        /\ Len(r.history) <= 9

\* two requests overlap and the later one carries a full window of nine
C9_Witness ==
    \E r \in pending, q \in pending :
        /\ q.at < r.at
        /\ r.at > 10
        /\ Len(r.history) = 9

----------------------------------------------------------------------------
(* C10: one request at a time.                                             *)

\* C10: at most one request is in flight, and isTyping is true exactly
\* while a request awaits its outcome.
C10_SingleRequestInFlight ==
    /\ Cardinality(pending) <= 1
    /\ isTyping <=> pending # {}

=============================================================================
